---- MODULE Spec2Model ----
(***************************************************************************)
(* A state-machine model of the SignalR client.                            *)
(*                                                                         *)
(*   src/client.go   the invocation registry, the callback registry and    *)
(*                   the dispatch loop (Client.Run) with its reader and    *)
(*                   router goroutines;                                    *)
(*   src/signalr.go  the negotiate / connect / start handshake.            *)
(*                                                                         *)
(* Go channels are records [buf, closed]; a Go select is a nondeterministic*)
(* choice among the cases that are ready; a mutex-protected section that   *)
(* cannot block is one atomic action, and a section that can block while   *)
(* holding the mutex (callbacks.process, callbacks.removeAll) is a         *)
(* sequence of steps taken with the lock variable held.                    *)
(***************************************************************************)
EXTENDS Integers, Sequences, FiniteSets, TLC

(* ------------------------------ bounds -------------------------------- *)

\* number of Invoke calls modelled (ids 1..MaxInv can be allocated)
MaxInv == 2

\* number of CallbackStream objects that callbacks.create may allocate
MaxStreams == 2

\* number of frames the reader takes from the transport
MaxFrames == 2

\* number of push sub-messages in one frame
MaxMsgs == 2

\* capacity of a stream's buffer; the code allocates 16 slots
\* (client.go:306), the model a smaller buffer that fills the same way
BufCap == 1

\* caller-supplied cancellation scopes
NScopes == 2

Scopes == 1..NScopes

Methods == {"a", "b"}

Nil == "nil"

(* ------------------------------ state --------------------------------- *)

VARIABLES
    scopeDone,    \* [Scopes -> BOOLEAN]: the caller's context is cancelled
    \* invocation registry (type invocations) and its Invocation objects
    invId,        \* invocations.id: the next correlation id
    invData,      \* invocations.data: the ids that are keys of the map
    invCtx,       \* Invocation.ctx: id -> scope of the caller (0: not created)
    invCh,        \* Invocation.ch: id -> [buf, closed]
    invPc,        \* position of the Invoke call that created id
    invOut,       \* what Invocation.Unmarshal returned for the handle of id
    created,      \* the ids returned by invocations.create, in order
    sends,        \* id -> number of values sent on Invocation.ch
    closes,       \* id -> number of close(Invocation.ch)
    panicked,     \* a close of a closed channel or a send on one happened
    \* callback registry (type callbacks) and its CallbackStream objects
    nStreams,     \* number of CallbackStream objects allocated so far
    cbData,       \* callbacks.data: method -> stream (0: no entry)
    cbLocked,     \* callbacks.mtx is held (by the router)
    stMethod,     \* stream -> the method it was created for
    stParent,     \* stream -> the caller scope its ctx derives from
    stCancel,     \* stream -> CallbackStream.cancel was called
    stCh,         \* stream -> [buf, closed]
    stRd,         \* stream -> position of the subscriber in readResult
    stGot,        \* stream -> tags of the messages Read returned, in order
    lastCreate,   \* outcome of the latest callbacks.create
    \* dispatch loop (Client.Run)
    topDone,      \* the context passed to Run is cancelled
    grpErr,       \* errgroup: the first non-nil error returned by a task
    runRet,       \* what Run returned ("running" while it has not)
    rdPc,         \* reader goroutine: "read", "handoff", "done"
    rdMsg,        \* the frame the reader holds
    rdErr,        \* the error the reader returned
    rtPc,         \* router goroutine position
    rtMsg,        \* the frame the router is processing
    rtIdx,        \* index of the next push sub-message of rtMsg
    rtLog,        \* callbacks.process: the case taken for each sub-message of
                  \* the frame so far ("skip", "done", "send", "timeout")
    rtTodo,       \* callbacks.removeAll: streams still to visit
    rtErr,        \* what the router task returned
    connClosed,   \* Conn.Close was called
    nFrames,      \* frames read from the transport so far
    \* handshake (signalr.go)
    hsPc,         \* position in Client.Init
    negI,         \* loop counter i of Client.Negotiate
    negSleeps,    \* calls of time.Sleep(time.Minute) in Client.Negotiate
    hsErr,        \* err of the step that failed (Nil: none)
    hsConn,       \* Client.Conn is set
    hsLoop,       \* go c.readMessages() was started
    hsIn          \* what the server answered: the negotiate statuses in order,
                  \* the dial, the start response, the init frame

invVars == <<invId, invData, invCtx, invCh, invPc, invOut, created, sends, closes>>
cbVars == <<nStreams, cbData, cbLocked, stMethod, stParent, stCancel, stCh, stRd,
            stGot, lastCreate>>
runVars == <<topDone, grpErr, runRet, rdPc, rdMsg, rdErr, rtPc, rtMsg, rtIdx,
             rtLog, rtTodo, rtErr, connClosed, nFrames>>
hsVars == <<hsPc, negI, negSleeps, hsErr, hsConn, hsLoop, hsIn>>

vars == <<scopeDone, panicked, invVars, cbVars, runVars, hsVars>>

(* ----------------------------- channels ------------------------------- *)

\* make(chan T, n)
MakeChan == [buf |-> <<>>, closed |-> FALSE]

\* ch <- v on a channel with room
ChSend(ch, v) == [ch EXCEPT !.buf = Append(@, v)]

\* close(ch)
ChClose(ch) == [ch EXCEPT !.closed = TRUE]

\* a receive from ch does not block
ChCanRecv(ch) == ch.buf # <<>> \/ ch.closed

\* a send of one value on ch with capacity cap does not block
\* (a send on a closed channel does not block either: it panics)
ChCanSend(ch, cap) == ch.closed \/ Len(ch.buf) < cap

(* ------------------------- cancellation scopes ------------------------ *)

\* <-inv.ctx.Done() is ready: the Invocation carries the caller's context
InvCtxDone(id) == scopeDone[invCtx[id]]

\* <-cb.ctx.Done() is ready: the stream's context is a child of the
\* caller's (context.WithCancel(ctx)), done when either is cancelled
StCtxDone(s) == stCancel[s] \/ scopeDone[stParent[s]]

\* a cancel that reaches the contexts of all callers
CancelScope_all(sc) ==
    /\ ~scopeDone[sc]
    /\ scopeDone' = [c \in Scopes |-> TRUE]
    /\ UNCHANGED <<panicked, invVars, cbVars, runVars, hsVars>>

\* a caller cancels the context it passed to Invoke / Callback
CancelScope(sc) ==
    /\ ~scopeDone[sc]
    /\ scopeDone' = [scopeDone EXCEPT ![sc] = TRUE]
    /\ UNCHANGED <<panicked, invVars, cbVars, runVars, hsVars>>

(* ------------------------ invocation registry ------------------------- *)

\* the zero value a receive from a closed, empty channel yields
ZeroResult == [result |-> Nil, err |-> Nil]

\* invocationResult built by invocations.process from a frame
ResultOf(msg) ==
    [result |-> msg.Result,
     err    |-> IF msg.Error # "" THEN "InvocationError" ELSE Nil]

\* json.Unmarshal(raw, dest): no input is a syntax error, never a
\* context error
JsonUnmarshal(raw) == IF raw = Nil THEN "json_err" ELSE "value"

\* invocations.create: take the next id, register a new Invocation with a
\* one-slot channel
invocations_create(sc) ==
    LET id == invId IN
    /\ id <= MaxInv
    /\ invId' = invId + 1
    /\ invCtx' = [invCtx EXCEPT ![id] = sc]
    /\ invCh' = [invCh EXCEPT ![id] = MakeChan]
    /\ invData' = invData \cup {id}
    /\ created' = Append(created, id)
    /\ UNCHANGED <<sends, closes, panicked>>

\* invocations.remove with the delete forgotten
invocations_remove_keep(id) ==
    /\ IF id \notin invData
       THEN UNCHANGED <<invCh, invData, closes, panicked>>
       ELSE /\ invCh' = [invCh EXCEPT ![id] = ChClose(@)]
            /\ closes' = [closes EXCEPT ![id] = @ + 1]
            /\ panicked' = (panicked \/ invCh[id].closed)
            /\ invData' = invData
    /\ UNCHANGED <<invId, invCtx, created, sends>>

\* invocations.remove: close and delete the entry if it is still there
invocations_remove(id) ==
    /\ IF id \notin invData
       THEN UNCHANGED <<invCh, invData, closes, panicked>>
       ELSE /\ invCh' = [invCh EXCEPT ![id] = ChClose(@)]
            /\ closes' = [closes EXCEPT ![id] = @ + 1]
            /\ panicked' = (panicked \/ invCh[id].closed)
            /\ invData' = invData \ {id}
    /\ UNCHANGED <<invId, invCtx, created, sends>>

\* invocations.process with the delete forgotten
invocations_process_keep(msg) ==
    LET id == msg.I IN
    /\ IF id \notin invData
       THEN UNCHANGED <<invCh, invData, sends, closes, panicked>>
       ELSE \E deliver \in BOOLEAN :
              /\ deliver => ChCanSend(invCh[id], 1)
              /\ ~deliver => InvCtxDone(id)
              /\ invCh' = [invCh EXCEPT ![id] =
                             ChClose(IF deliver THEN ChSend(@, ResultOf(msg)) ELSE @)]
              /\ sends' = [sends EXCEPT ![id] = IF deliver THEN @ + 1 ELSE @]
              /\ closes' = [closes EXCEPT ![id] = @ + 1]
              /\ panicked' = (panicked \/ invCh[id].closed)
              /\ invData' = invData
    /\ UNCHANGED <<invId, invCtx, created>>

\* invocations.process: the select between <-inv.ctx.Done() and the send
\* takes any case that is ready; then close and delete
invocations_process(msg) ==
    LET id == msg.I IN
    /\ IF id \notin invData
       THEN UNCHANGED <<invCh, invData, sends, closes, panicked>>
       ELSE \E deliver \in BOOLEAN :
              /\ deliver => ChCanSend(invCh[id], 1)
              /\ ~deliver => InvCtxDone(id)
              /\ invCh' = [invCh EXCEPT ![id] =
                             ChClose(IF deliver THEN ChSend(@, ResultOf(msg)) ELSE @)]
              /\ sends' = [sends EXCEPT ![id] = IF deliver THEN @ + 1 ELSE @]
              /\ closes' = [closes EXCEPT ![id] = @ + 1]
              /\ panicked' = (panicked \/ invCh[id].closed)
              /\ invData' = invData \ {id}
    /\ UNCHANGED <<invId, invCtx, created>>

\* invocations.removeAll that also restarts the id counter, as
\* newInvocations does
invocations_removeAll_reset ==
    /\ invCh' = [id \in DOMAIN invCh |->
                   IF id \in invData THEN ChClose(invCh[id]) ELSE invCh[id]]
    /\ closes' = [id \in DOMAIN closes |->
                   IF id \in invData THEN closes[id] + 1 ELSE closes[id]]
    /\ panicked' = (panicked \/ \E id \in invData : invCh[id].closed)
    /\ invData' = {}
    /\ invId' = 1
    /\ UNCHANGED <<invCtx, created, sends>>

\* invocations.removeAll: close every registered channel, replace the map
invocations_removeAll ==
    /\ invCh' = [id \in DOMAIN invCh |->
                   IF id \in invData THEN ChClose(invCh[id]) ELSE invCh[id]]
    /\ closes' = [id \in DOMAIN closes |->
                   IF id \in invData THEN closes[id] + 1 ELSE closes[id]]
    /\ panicked' = (panicked \/ \E id \in invData : invCh[id].closed)
    /\ invData' = {}
    /\ UNCHANGED <<invId, invCtx, created, sends>>

(* --------------------------- Client.Invoke ---------------------------- *)

\* Client.Invoke up to the write: c.invocations.create(ctx, method)
Invoke_create(sc) ==
    /\ invocations_create(sc)
    /\ invPc' = [invPc EXCEPT ![invId] = "sending"]
    /\ invOut' = [invOut EXCEPT ![invId] = Nil]
    /\ UNCHANGED <<scopeDone, cbVars, runVars, hsVars>>

\* c.conn.WriteMessage succeeded: Invoke returns inv
Invoke_sent(id) ==
    /\ invPc[id] = "sending"
    /\ invPc' = [invPc EXCEPT ![id] = "returned"]
    /\ UNCHANGED <<scopeDone, panicked, invId, invData, invCtx, invCh, invOut,
                   created, sends, closes, cbVars, runVars, hsVars>>

\* c.conn.WriteMessage failed: c.invocations.remove(inv.id), Invoke returns
\* &Invocation{err: err}
Invoke_failed(id) ==
    /\ invPc[id] = "sending"
    /\ invocations_remove(id)
    /\ invPc' = [invPc EXCEPT ![id] = "failed"]
    /\ UNCHANGED <<scopeDone, invOut, cbVars, runVars, hsVars>>

\* Invocation.Unmarshal on the handle Invoke returned
Unmarshal(id) ==
    /\ invOut[id] = Nil
    /\ \/ /\ invPc[id] = "failed"
          /\ invOut' = [invOut EXCEPT ![id] = "send_err"]
          /\ UNCHANGED invCh
       \/ /\ invPc[id] = "returned"
          /\ InvCtxDone(id)
          /\ invOut' = [invOut EXCEPT ![id] = "ctx_err"]
          /\ UNCHANGED invCh
       \/ /\ invPc[id] = "returned"
          /\ ChCanRecv(invCh[id])
          /\ LET res == IF invCh[id].buf # <<>> THEN Head(invCh[id].buf)
                        ELSE ZeroResult
             IN  invOut' = [invOut EXCEPT ![id] =
                             IF res.err # Nil THEN res.err
                             ELSE JsonUnmarshal(res.result)]
          /\ invCh' = [invCh EXCEPT ![id].buf =
                         IF @ # <<>> THEN Tail(@) ELSE @]
    /\ UNCHANGED <<scopeDone, panicked, invId, invData, invCtx, invPc, created,
                   sends, closes, cbVars, runVars, hsVars>>

(* ------------------------- callback registry -------------------------- *)

\* the streams that are values of callbacks.data
Registered == {cbData[m] : m \in Methods} \ {0}

\* callbacks.create without the look at the existing entry's context
callbacks_create_nocheck(sc, method) ==
    /\ ~cbLocked
    /\ IF cbData[method] # 0
       THEN /\ lastCreate' = [method |-> method, err |-> "DuplicateCallbackError",
                              stream |-> 0]
            /\ UNCHANGED <<nStreams, cbData, stMethod, stParent, stCancel, stCh>>
       ELSE LET s == nStreams + 1 IN
            /\ s <= MaxStreams
            /\ nStreams' = s
            /\ stMethod' = [stMethod EXCEPT ![s] = method]
            /\ stParent' = [stParent EXCEPT ![s] = sc]
            /\ stCancel' = [stCancel EXCEPT ![s] = FALSE]
            /\ stCh' = [stCh EXCEPT ![s] = MakeChan]
            /\ cbData' = [cbData EXCEPT ![method] = s]
            /\ lastCreate' = [method |-> method, err |-> Nil, stream |-> s]

\* callbacks.create: a duplicate error while the registered stream's
\* context is not done; otherwise a new stream with a child context and a
\* buffered channel replaces the entry
callbacks_create(sc, method) ==
    /\ ~cbLocked
    /\ IF cbData[method] # 0 /\ ~StCtxDone(cbData[method])
       THEN /\ lastCreate' = [method |-> method, err |-> "DuplicateCallbackError",
                              stream |-> 0]
            /\ UNCHANGED <<nStreams, cbData, stMethod, stParent, stCancel, stCh>>
       ELSE LET s == nStreams + 1 IN
            /\ s <= MaxStreams
            /\ nStreams' = s
            /\ stMethod' = [stMethod EXCEPT ![s] = method]
            /\ stParent' = [stParent EXCEPT ![s] = sc]
            /\ stCancel' = [stCancel EXCEPT ![s] = FALSE]
            /\ stCh' = [stCh EXCEPT ![s] = MakeChan]
            /\ cbData' = [cbData EXCEPT ![method] = s]
            /\ lastCreate' = [method |-> method, err |-> Nil, stream |-> s]

\* Client.Callback
Callback(sc, method) ==
    /\ callbacks_create(sc, method)
    /\ UNCHANGED <<scopeDone, panicked, invVars, cbLocked, stRd, stGot,
                   runVars, hsVars>>

\* CallbackStream.Close: s.cancel()
Close(s) ==
    /\ s <= nStreams
    /\ ~stCancel[s]
    /\ stCancel' = [stCancel EXCEPT ![s] = TRUE]
    /\ UNCHANGED <<scopeDone, panicked, invVars, nStreams, cbData, cbLocked, stMethod,
                   stParent, stCh, stRd, stGot, lastCreate, runVars, hsVars>>

\* what the blocking select of CallbackStream.readResult can return for
\* stream s: the context's error, the next buffered result, or
\* context.Canceled from a closed and empty channel
ReadReturns(s) ==
    (IF StCtxDone(s) THEN {[message |-> Nil, err |-> "ctx_err"]} ELSE {})
    \cup (IF stCh[s].buf # <<>> THEN {Head(stCh[s].buf)} ELSE {})
    \cup (IF stCh[s].buf = <<>> /\ stCh[s].closed
          THEN {[message |-> Nil, err |-> "Canceled"]} ELSE {})

\* CallbackStream.readResult, first select: return the context's error at
\* once when the context is done, otherwise go on to the blocking select
Read_begin(s) ==
    /\ s <= nStreams
    /\ stRd[s] = "idle"
    /\ stRd' = [stRd EXCEPT ![s] = IF StCtxDone(s) THEN "idle" ELSE "wait"]
    /\ UNCHANGED <<scopeDone, panicked, invVars, nStreams, cbData, cbLocked, stMethod,
                   stParent, stCancel, stCh, stGot, lastCreate, runVars, hsVars>>

\* CallbackStream.readResult whose receive leaves the result in the buffer
Read_select_peek(s) ==
    /\ stRd[s] = "wait"
    /\ stRd' = [stRd EXCEPT ![s] = "idle"]
    /\ \E res \in ReadReturns(s) :
         /\ stCh' = stCh
         /\ stGot' = [stGot EXCEPT ![s] =
                        IF res.err = Nil THEN Append(@, res.message.tag) ELSE @]
    /\ UNCHANGED <<scopeDone, panicked, invVars, nStreams, cbData, cbLocked, stMethod,
                   stParent, stCancel, lastCreate, runVars, hsVars>>

\* CallbackStream.readResult, second select, and Read's use of the result:
\* an error is returned, a message is unmarshalled into the arguments
Read_select(s) ==
    /\ stRd[s] = "wait"
    /\ stRd' = [stRd EXCEPT ![s] = "idle"]
    /\ \E res \in ReadReturns(s) :
         /\ stCh' = [stCh EXCEPT ![s].buf =
                       IF res.err # "ctx_err" /\ @ # <<>> THEN Tail(@) ELSE @]
         /\ stGot' = [stGot EXCEPT ![s] =
                        IF res.err = Nil THEN Append(@, res.message.tag) ELSE @]
    /\ UNCHANGED <<scopeDone, panicked, invVars, nStreams, cbData, cbLocked, stMethod,
                   stParent, stCancel, lastCreate, runVars, hsVars>>

\* the three cases of the select in callbacks.process for stream s:
\* <-callback.ctx.Done(), the send, and <-wrCtx.Done().  The write deadline
\* (a positive maxMessageProcessDuration) elapses only while neither of
\* the other two is ready.
CaseDone(s) == StCtxDone(s)
CaseSend(s) == ChCanSend(stCh[s], BufCap)
CaseTimeout(s) == ~CaseDone(s) /\ ~CaseSend(s)

\* the cases of one iteration of the loop of callbacks.process
SelectCases == {"skip", "done", "send", "timeout"}

\* one iteration of the loop of callbacks.process in which the deadline
\* cancels and closes the stream but leaves its entry in the map
callbacks_process_step_keep(clientMsg, c) ==
    LET method == clientMsg.Method
        s == cbData[method]
    IN  IF s = 0
        THEN /\ c = "skip"
             /\ UNCHANGED <<cbData, stCh, stCancel, panicked>>
        ELSE \/ /\ c = "done"
                /\ CaseDone(s)
                /\ stCh' = [stCh EXCEPT ![s] = ChClose(@)]
                /\ panicked' = (panicked \/ stCh[s].closed)
                /\ cbData' = [cbData EXCEPT ![method] = 0]
                /\ UNCHANGED stCancel
             \/ /\ c = "send"
                /\ CaseSend(s)
                /\ stCh' = [stCh EXCEPT ![s] =
                              ChSend(@, [message |-> clientMsg, err |-> Nil])]
                /\ panicked' = (panicked \/ stCh[s].closed)
                /\ UNCHANGED <<stCancel, cbData>>
             \/ /\ c = "timeout"
                /\ CaseTimeout(s)
                /\ stCancel' = [stCancel EXCEPT ![s] = TRUE]
                /\ stCh' = [stCh EXCEPT ![s] = ChClose(@)]
                /\ panicked' = (panicked \/ stCh[s].closed)
                /\ UNCHANGED cbData

\* one iteration of the loop of callbacks.process, taking case c: skip a
\* method without an entry; otherwise tear the stream down when its
\* context is done, deliver when the buffer has room, cancel and tear down
\* on the deadline
callbacks_process_step(clientMsg, c) ==
    LET method == clientMsg.Method
        s == cbData[method]
    IN  IF s = 0
        THEN /\ c = "skip"
             /\ UNCHANGED <<cbData, stCh, stCancel, panicked>>
        ELSE \/ /\ c = "done"
                /\ CaseDone(s)
                /\ stCh' = [stCh EXCEPT ![s] = ChClose(@)]
                /\ panicked' = (panicked \/ stCh[s].closed)
                /\ cbData' = [cbData EXCEPT ![method] = 0]
                /\ UNCHANGED stCancel
             \/ /\ c = "send"
                /\ CaseSend(s)
                /\ stCh' = [stCh EXCEPT ![s] =
                              ChSend(@, [message |-> clientMsg, err |-> Nil])]
                /\ panicked' = (panicked \/ stCh[s].closed)
                /\ UNCHANGED <<stCancel, cbData>>
             \/ /\ c = "timeout"
                /\ CaseTimeout(s)
                /\ stCancel' = [stCancel EXCEPT ![s] = TRUE]
                /\ stCh' = [stCh EXCEPT ![s] = ChClose(@)]
                /\ panicked' = (panicked \/ stCh[s].closed)
                /\ cbData' = [cbData EXCEPT ![method] = 0]

\* one iteration of the loop of callbacks.removeAll: the select between
\* <-callback.ctx.Done() and the send of a Canceled result, then the close
callbacks_removeAll_step(s) ==
    /\ \E deliver \in BOOLEAN :
         /\ deliver => ChCanSend(stCh[s], BufCap)
         /\ ~deliver => StCtxDone(s)
         /\ stCh' = [stCh EXCEPT ![s] =
                       ChClose(IF deliver
                               THEN ChSend(@, [message |-> Nil, err |-> "Canceled"])
                               ELSE @)]
    /\ panicked' = (panicked \/ stCh[s].closed)

(* ---------------------------- Client.Run ------------------------------ *)

\* sequences over S of length at most n
SeqsUpTo(S, n) == UNION {[1..k -> S] : k \in 0..n}

\* the push sub-messages of frame number fno for the methods ms, each
\* tagged with its place in the transport's order
SubMessages(fno, ms) ==
    [k \in 1..Len(ms) |-> [Method |-> ms[k], tag |-> <<fno, k>>]]

\* a frame: a correlation id (0: none), a result or an error text, and
\* push sub-messages
Frame(i, e, M) ==
    [I |-> i, Error |-> e, Result |-> IF e = "" /\ i # 0 THEN "data" ELSE Nil,
     M |-> M]

\* frames without push sub-messages: responses, and the empty frame
ResponseFrames ==
    {Frame(i, e, <<>>) : i \in 0..MaxInv, e \in {"", "bad"}}

\* frames that carry only push sub-messages
PushFrames(fno) ==
    {Frame(0, "", SubMessages(fno, ms)) : ms \in SeqsUpTo(Methods, MaxMsgs)}

\* every frame the transport may yield as frame number fno
Frames(fno) ==
    {Frame(i, e, SubMessages(fno, ms)) :
     i \in 0..MaxInv, e \in {"", "bad"}, ms \in SeqsUpTo(Methods, MaxMsgs)}

\* every frame the transport may yield as frame number fno when method "a"
\* is the only one the server pushes
RunFrames(fno) ==
    {Frame(i, e, SubMessages(fno, ms)) :
     i \in 0..MaxInv, e \in {"", "bad"}, ms \in SeqsUpTo({"a"}, 1)}

\* frames with a result for id 1 or none, and push sub-messages
OrdFrames(fno) ==
    {Frame(i, "", SubMessages(fno, ms)) :
     i \in 0..1, ms \in SeqsUpTo(Methods, MaxMsgs)}

\* frames with a result for any id or none, and at most one push
\* sub-message
SibFrames(fno) ==
    {Frame(i, "", SubMessages(fno, ms)) :
     i \in 0..MaxInv, ms \in SeqsUpTo(Methods, 1)}

\* frames that carry at most one push sub-message, for method "a"
ShutFrames(fno) ==
    {Frame(0, "", SubMessages(fno, ms)) : ms \in SeqsUpTo({"a"}, 1)}

NoFrame == [I |-> 0, Error |-> "", Result |-> Nil, M |-> <<>>]

\* ctx of errgroup.WithContext(ctx): done when the parent is done, when a
\* task has returned a non-nil error, or when Wait has returned
GroupDone == topDone \/ grpErr # Nil \/ runRet # "running"

\* errgroup.Group.Go: the last error is kept instead of the first
TaskReturns_last(err) == IF err # Nil THEN err ELSE grpErr

\* errgroup.Group.Go: the first non-nil error a task returns is kept
TaskReturns(err) == IF grpErr = Nil THEN err ELSE grpErr

\* the caller of Run cancels the context it passed
CancelTop ==
    /\ ~topDone
    /\ topDone' = TRUE
    /\ UNCHANGED <<scopeDone, panicked, invVars, cbVars, grpErr, runRet, rdPc, rdMsg,
                   rdErr, rtPc, rtMsg, rtIdx, rtLog, rtTodo, rtErr, connClosed, nFrames,
                   hsVars>>

\* reader task: c.conn.ReadMessage(ctx, &msg) yields a frame of FS
Reader_read(FS) ==
    /\ rdPc = "read"
    /\ ~connClosed
    /\ nFrames < MaxFrames
    /\ \E f \in FS : rdMsg' = f
    /\ nFrames' = nFrames + 1
    /\ rdPc' = "handoff"
    /\ UNCHANGED <<scopeDone, panicked, invVars, cbVars, topDone, grpErr, runRet,
                   rdErr, rtPc, rtMsg, rtIdx, rtLog, rtTodo, rtErr, connClosed, hsVars>>

\* reader task: c.conn.ReadMessage fails and the task returns the error
Reader_fail ==
    /\ rdPc = "read"
    /\ rdPc' = "done"
    /\ rdErr' = "read_err"
    /\ grpErr' = TaskReturns("read_err")
    /\ UNCHANGED <<scopeDone, panicked, invVars, cbVars, topDone, runRet, rdMsg,
                   rtPc, rtMsg, rtIdx, rtLog, rtTodo, rtErr, connClosed, nFrames, hsVars>>

\* router task, case msg := <-message: the handoff from the reader, then
\* c.invocations.process(&msg)
Router_message ==
    /\ rtPc = "select"
    /\ rdPc = "handoff"
    /\ rdPc' = "read"
    /\ rtMsg' = rdMsg
    /\ rdMsg' = NoFrame
    /\ invocations_process(rdMsg)
    /\ rtPc' = "callbacks.process"
    /\ UNCHANGED <<scopeDone, invPc, invOut, cbVars, topDone, grpErr, runRet, rdErr,
                   rtIdx, rtLog, rtTodo, rtErr, connClosed, nFrames, hsVars>>

\* c.callbacks.process(&msg): return at once without sub-messages,
\* otherwise take the lock and start the loop
Router_cb_begin ==
    /\ rtPc = "callbacks.process"
    /\ IF Len(rtMsg.M) = 0
       THEN /\ rtPc' = "select"
            /\ rtMsg' = NoFrame
            /\ UNCHANGED <<cbLocked, rtIdx>>
       ELSE /\ ~cbLocked
            /\ cbLocked' = TRUE
            /\ rtIdx' = 1
            /\ rtPc' = "callbacks.loop"
            /\ UNCHANGED rtMsg
    /\ UNCHANGED <<scopeDone, panicked, invVars, nStreams, cbData, stMethod, stParent,
                   stCancel, stCh, stRd, stGot, lastCreate, topDone, grpErr,
                   runRet, rdPc, rdMsg, rdErr, rtLog, rtTodo, rtErr, connClosed,
                   nFrames, hsVars>>

\* the loop of callbacks.process with a return in place of the continue
\* for a method without an entry
Router_cb_step_return ==
    /\ rtPc = "callbacks.loop"
    /\ \E c \in SelectCases :
         /\ callbacks_process_step(rtMsg.M[rtIdx], c)
         /\ rtLog' = IF rtIdx < Len(rtMsg.M) /\ c # "skip" THEN Append(rtLog, c) ELSE <<>>
         /\ IF rtIdx < Len(rtMsg.M) /\ c # "skip"
            THEN /\ rtIdx' = rtIdx + 1
                 /\ UNCHANGED <<rtPc, rtMsg, cbLocked>>
            ELSE /\ rtIdx' = 0
                 /\ rtPc' = "select"
                 /\ rtMsg' = NoFrame
                 /\ cbLocked' = FALSE
    /\ UNCHANGED <<scopeDone, invVars, nStreams, stMethod, stParent, stRd, stGot,
                   lastCreate, topDone, grpErr, runRet, rdPc, rdMsg, rdErr,
                   rtTodo, rtErr, connClosed, nFrames, hsVars>>

\* c.callbacks.process(&msg): one iteration of the loop, with the lock
\* held; after the last one the deferred Unlock runs
Router_cb_step ==
    /\ rtPc = "callbacks.loop"
    /\ \E c \in SelectCases :
         /\ callbacks_process_step(rtMsg.M[rtIdx], c)
         /\ rtLog' = IF rtIdx < Len(rtMsg.M) THEN Append(rtLog, c) ELSE <<>>
    /\ IF rtIdx < Len(rtMsg.M)
       THEN /\ rtIdx' = rtIdx + 1
            /\ UNCHANGED <<rtPc, rtMsg, cbLocked>>
       ELSE /\ rtIdx' = 0
            /\ rtPc' = "select"
            /\ rtMsg' = NoFrame
            /\ cbLocked' = FALSE
    /\ UNCHANGED <<scopeDone, invVars, nStreams, stMethod, stParent, stRd, stGot,
                   lastCreate, topDone, grpErr, runRet, rdPc, rdMsg, rdErr,
                   rtTodo, rtErr, connClosed, nFrames, hsVars>>

\* router task, case <-ctx.Done(): c.invocations.removeAll()
Router_cancelled ==
    /\ rtPc = "select"
    /\ GroupDone
    /\ invocations_removeAll
    /\ rtPc' = "callbacks.removeAll"
    /\ UNCHANGED <<scopeDone, invPc, invOut, cbVars, topDone, grpErr, runRet, rdPc,
                   rdMsg, rdErr, rtMsg, rtIdx, rtLog, rtTodo, rtErr, connClosed, nFrames,
                   hsVars>>

\* c.callbacks.removeAll(): take the lock and range over the map
Router_removeAll_begin ==
    /\ rtPc = "callbacks.removeAll"
    /\ ~cbLocked
    /\ cbLocked' = TRUE
    /\ rtTodo' = Registered
    /\ rtPc' = "removeAll.loop"
    /\ UNCHANGED <<scopeDone, panicked, invVars, nStreams, cbData, stMethod, stParent,
                   stCancel, stCh, stRd, stGot, lastCreate, topDone, grpErr,
                   runRet, rdPc, rdMsg, rdErr, rtMsg, rtIdx, rtLog, rtErr, connClosed,
                   nFrames, hsVars>>

\* c.callbacks.removeAll(): one iteration, in the map's arbitrary order
Router_removeAll_step ==
    /\ rtPc = "removeAll.loop"
    /\ \E s \in rtTodo :
         /\ callbacks_removeAll_step(s)
         /\ rtTodo' = rtTodo \ {s}
    /\ UNCHANGED <<scopeDone, invVars, nStreams, cbData, cbLocked, stMethod, stParent,
                   stCancel, stRd, stGot, lastCreate, topDone, grpErr, runRet,
                   rdPc, rdMsg, rdErr, rtPc, rtMsg, rtIdx, rtLog, rtErr, connClosed, nFrames,
                   hsVars>>

\* c.callbacks.removeAll() that releases the lock without replacing the map
Router_removeAll_end_keep ==
    /\ rtPc = "removeAll.loop"
    /\ rtTodo = {}
    /\ cbData' = cbData
    /\ cbLocked' = FALSE
    /\ rtPc' = "conn.Close"
    /\ UNCHANGED <<scopeDone, panicked, invVars, nStreams, stMethod, stParent,
                   stCancel, stCh, stRd, stGot, lastCreate, topDone, grpErr,
                   runRet, rdPc, rdMsg, rdErr, rtMsg, rtIdx, rtLog, rtTodo, rtErr, connClosed,
                   nFrames, hsVars>>

\* c.callbacks.removeAll(): the map is replaced and the lock released
Router_removeAll_end ==
    /\ rtPc = "removeAll.loop"
    /\ rtTodo = {}
    /\ cbData' = [m \in Methods |-> 0]
    /\ cbLocked' = FALSE
    /\ rtPc' = "conn.Close"
    /\ UNCHANGED <<scopeDone, panicked, invVars, nStreams, stMethod, stParent,
                   stCancel, stCh, stRd, stGot, lastCreate, topDone, grpErr,
                   runRet, rdPc, rdMsg, rdErr, rtMsg, rtIdx, rtLog, rtTodo, rtErr, connClosed,
                   nFrames, hsVars>>

\* return c.conn.Close(): the router task ends with what Close returned
Router_close ==
    /\ rtPc = "conn.Close"
    /\ connClosed' = TRUE
    /\ \E e \in {Nil, "close_err"} :
         /\ rtErr' = e
         /\ grpErr' = TaskReturns(e)
    /\ rtPc' = "done"
    /\ UNCHANGED <<scopeDone, panicked, invVars, cbVars, topDone, runRet, rdPc, rdMsg,
                   rdErr, rtMsg, rtIdx, rtLog, rtTodo, nFrames, hsVars>>

\* return g.Wait(): both tasks have returned; Run returns the group's error
Run_return ==
    /\ runRet = "running"
    /\ rdPc = "done"
    /\ rtPc = "done"
    /\ runRet' = grpErr
    /\ UNCHANGED <<scopeDone, panicked, invVars, cbVars, topDone, grpErr, rdPc, rdMsg,
                   rdErr, rtPc, rtMsg, rtIdx, rtLog, rtTodo, rtErr, connClosed, nFrames,
                   hsVars>>

(* ------------------------ handshake (signalr.go) ---------------------- *)

\* the attempts of the loop of Client.Negotiate
NegotiateAttempts == 5

\* websocket.TextMessage
TextMessage == 1

\* the initialization sentinel of Client.Start
serverInitialized == 1

\* what c.HTTPClient.Get yields in Client.Negotiate: an error, or a status
\* with (for a 200) a body that is unreadable, not JSON, or a JSON object
NegotiateResponses ==
    {[status |-> st, body |-> Nil] : st \in {"get_err", "500", "503"}}
    \cup {[status |-> "200", body |-> b] : b \in {"read_err", "malformed", "json"}}

\* bodies of the start response: unreadable, not JSON, or a JSON object
\* whose Response field is "started" or something else
StartBodies == {"read_err", "malformed", "started", "other"}

\* what conn.ReadMessage yields in Client.Start: an error, or a frame with
\* a type and a payload that is malformed or a JSON object with field S
InitFrames ==
    {[err |-> TRUE, type |-> 0, json |-> FALSE, S |-> 0]}
    \cup {[err |-> FALSE, type |-> t, json |-> j, S |-> v] :
          t \in {TextMessage, 2}, j \in BOOLEAN, v \in {0, 1, 2}}

\* no init frame read yet
NoInitFrame == [err |-> FALSE, type |-> 0, json |-> FALSE, S |-> 0]

\* Client.Init calls Negotiate, which resets the connection token
Init_begin ==
    /\ hsPc = "Idle"
    /\ hsPc' = "Negotiating"
    /\ negI' = 0
    /\ UNCHANGED <<scopeDone, panicked, invVars, cbVars, runVars, negSleeps, hsErr, hsConn,
                   hsLoop, hsIn>>

\* one iteration of the loop of Client.Negotiate in which a 503 sleeps and
\* continues like any other status that is not 200
Negotiate_request_retry503(resp) ==
    /\ hsPc = "Negotiating"
    /\ negI < NegotiateAttempts
    /\ hsIn' = [hsIn EXCEPT !.negotiate = Append(@, resp)]
    /\ IF resp.status = "get_err"
       THEN /\ hsErr' = "negotiate_err"
            /\ hsPc' = "Failed"
            /\ UNCHANGED <<negI, negSleeps>>
       ELSE IF resp.status = "200"
       THEN /\ hsErr' = IF resp.body = "json" THEN Nil ELSE "negotiate_err"
            /\ hsPc' = IF resp.body = "json" THEN "Connecting" ELSE "Failed"
            /\ UNCHANGED <<negI, negSleeps>>
       ELSE /\ hsErr' = "negotiate_err"
            /\ negSleeps' = negSleeps + 1
            /\ negI' = negI + 1
            /\ UNCHANGED hsPc
    /\ UNCHANGED <<scopeDone, panicked, invVars, cbVars, runVars, hsConn, hsLoop>>

\* one iteration of the loop of Client.Negotiate: a failed request or a
\* 503 returns the error, a 200 reads and parses the body and returns,
\* any other status sleeps and continues
Negotiate_request(resp) ==
    /\ hsPc = "Negotiating"
    /\ negI < NegotiateAttempts
    /\ hsIn' = [hsIn EXCEPT !.negotiate = Append(@, resp)]
    /\ IF resp.status = "get_err" \/ resp.status = "503"
       THEN /\ hsErr' = "negotiate_err"
            /\ hsPc' = "Failed"
            /\ UNCHANGED <<negI, negSleeps>>
       ELSE IF resp.status = "200"
       THEN /\ hsErr' = IF resp.body = "json" THEN Nil ELSE "negotiate_err"
            /\ hsPc' = IF resp.body = "json" THEN "Connecting" ELSE "Failed"
            /\ UNCHANGED <<negI, negSleeps>>
       ELSE /\ hsErr' = "negotiate_err"
            /\ negSleeps' = negSleeps + 1
            /\ negI' = negI + 1
            /\ UNCHANGED hsPc
    /\ UNCHANGED <<scopeDone, panicked, invVars, cbVars, runVars, hsConn, hsLoop>>

\* the loop of Client.Negotiate ends: the last status's error is returned
Negotiate_exhausted ==
    /\ hsPc = "Negotiating"
    /\ negI = NegotiateAttempts
    /\ hsPc' = IF hsErr # Nil THEN "Failed" ELSE "Connecting"
    /\ UNCHANGED <<scopeDone, panicked, invVars, cbVars, runVars, negI, negSleeps, hsErr, hsConn,
                   hsLoop, hsIn>>

\* Client.Connect: the dial succeeds or returns an error (for a bad
\* handshake, the response body as the error)
Connect(ok) ==
    /\ hsPc = "Connecting"
    /\ hsIn' = [hsIn EXCEPT !.connect = IF ok THEN "dialed" ELSE "dial_err"]
    /\ hsErr' = IF ok THEN Nil ELSE "connect_err"
    /\ hsPc' = IF ok THEN "Start.Get" ELSE "Failed"
    /\ UNCHANGED <<scopeDone, panicked, invVars, cbVars, runVars, negI, negSleeps, hsConn, hsLoop>>

\* err of Client.Start up to the check of the response: the request, the
\* read of the body, its parse, and the comparison with "started"
StartResponseErr(get_ok, body) ==
    IF ~get_ok THEN "start_err"
    ELSE IF body \in {"read_err", "malformed"} THEN "start_err"
    ELSE IF body # "started" THEN "start_err"
    ELSE Nil

\* Client.Start, the start request and its response
Start_request(get_ok, body) ==
    /\ hsPc = "Start.Get"
    /\ hsIn' = [hsIn EXCEPT !.start = IF get_ok THEN body ELSE "get_err"]
    /\ hsErr' = StartResponseErr(get_ok, body)
    /\ hsPc' = IF StartResponseErr(get_ok, body) = Nil THEN "Start.ReadMessage"
               ELSE "Failed"
    /\ UNCHANGED <<scopeDone, panicked, invVars, cbVars, runVars, negI, negSleeps, hsConn, hsLoop>>

\* err of Client.Start from conn.ReadMessage on, without the look at S
InitFrameErr_noS(f) ==
    IF f.err THEN "start_err"
    ELSE IF f.type # TextMessage THEN "start_err"
    ELSE IF ~f.json THEN "start_err"
    ELSE Nil

\* err of Client.Start from conn.ReadMessage on: the read, the frame type,
\* the parse of the payload, and the S value
InitFrameErr(f) ==
    IF f.err THEN "start_err"
    ELSE IF f.type # TextMessage THEN "start_err"
    ELSE IF ~f.json THEN "start_err"
    ELSE IF f.S # serverInitialized THEN "start_err"
    ELSE Nil

\* Client.Start, the wait for the init message; c.Conn = conn when every
\* check passed
Start_frame(f) ==
    /\ hsPc = "Start.ReadMessage"
    /\ hsIn' = [hsIn EXCEPT !.frame = f]
    /\ hsErr' = InitFrameErr(f)
    /\ hsConn' = (InitFrameErr(f) = Nil)
    /\ hsPc' = IF InitFrameErr(f) = Nil THEN "Init.go" ELSE "Failed"
    /\ UNCHANGED <<scopeDone, panicked, invVars, cbVars, runVars, negI, negSleeps, hsLoop>>

\* Client.Init after Start returned nil: go c.readMessages()
Init_go ==
    /\ hsPc = "Init.go"
    /\ hsLoop' = TRUE
    /\ hsPc' = "Connected"
    /\ UNCHANGED <<scopeDone, panicked, invVars, cbVars, runVars, negI, negSleeps, hsErr, hsConn,
                   hsIn>>

(* --------------------------- specification ---------------------------- *)

InitClient ==
    /\ scopeDone = [sc \in Scopes |-> FALSE]
    /\ panicked = FALSE
    /\ invId = 1
    /\ invData = {}
    /\ invCtx = [id \in 1..MaxInv |-> 0]
    /\ invCh = [id \in 1..MaxInv |-> MakeChan]
    /\ invPc = [id \in 1..MaxInv |-> "none"]
    /\ invOut = [id \in 1..MaxInv |-> Nil]
    /\ created = <<>>
    /\ sends = [id \in 1..MaxInv |-> 0]
    /\ closes = [id \in 1..MaxInv |-> 0]
    /\ nStreams = 0
    /\ cbData = [m \in Methods |-> 0]
    /\ cbLocked = FALSE
    /\ stMethod = [s \in 1..MaxStreams |-> Nil]
    /\ stParent = [s \in 1..MaxStreams |-> 0]
    /\ stCancel = [s \in 1..MaxStreams |-> FALSE]
    /\ stCh = [s \in 1..MaxStreams |-> MakeChan]
    /\ stRd = [s \in 1..MaxStreams |-> "idle"]
    /\ stGot = [s \in 1..MaxStreams |-> <<>>]
    /\ lastCreate = [method |-> Nil, err |-> Nil, stream |-> 0]
    /\ topDone = FALSE
    /\ grpErr = Nil
    /\ runRet = "running"
    /\ rdPc = "read"
    /\ rdMsg = NoFrame
    /\ rdErr = Nil
    /\ rtPc = "select"
    /\ rtMsg = NoFrame
    /\ rtIdx = 0
    /\ rtLog = <<>>
    /\ rtTodo = {}
    /\ rtErr = Nil
    /\ connClosed = FALSE
    /\ nFrames = 0

InitHandshake ==
    /\ hsPc = "Idle"
    /\ negI = 0
    /\ negSleeps = 0
    /\ hsErr = Nil
    /\ hsConn = FALSE
    /\ hsLoop = FALSE
    /\ hsIn = [negotiate |-> <<>>, connect |-> Nil, start |-> Nil, frame |-> NoInitFrame]

Init == InitClient /\ InitHandshake

Next ==
    \/ \E sc \in Scopes : CancelScope(sc)
    \/ \E sc \in Scopes : Invoke_create(sc)
    \/ \E id \in 1..MaxInv : Invoke_sent(id)
    \/ \E id \in 1..MaxInv : Invoke_failed(id)
    \/ \E id \in 1..MaxInv : Unmarshal(id)
    \/ \E sc \in Scopes, m \in Methods : Callback(sc, m)
    \/ \E s \in 1..MaxStreams : Close(s)
    \/ \E s \in 1..MaxStreams : Read_begin(s)
    \/ \E s \in 1..MaxStreams : Read_select(s)
    \/ CancelTop
    \/ Reader_read(Frames(nFrames + 1))
    \/ Reader_fail
    \/ Router_message
    \/ Router_cb_begin
    \/ Router_cb_step
    \/ Router_cancelled
    \/ Router_removeAll_begin
    \/ Router_removeAll_step
    \/ Router_removeAll_end
    \/ Router_close
    \/ Run_return

Spec == Init /\ [][Next]_vars

\* the invocation registry under the dispatch loop: no subscriptions, and
\* frames without push sub-messages
NextInv ==
    \/ \E sc \in Scopes : CancelScope(sc)
    \/ \E sc \in Scopes : Invoke_create(sc)
    \/ \E id \in 1..MaxInv : Invoke_sent(id)
    \/ \E id \in 1..MaxInv : Invoke_failed(id)
    \/ \E id \in 1..MaxInv : Unmarshal(id)
    \/ CancelTop
    \/ Reader_read(ResponseFrames)
    \/ Reader_fail
    \/ Router_message
    \/ Router_cb_begin
    \/ Router_cancelled
    \/ Router_removeAll_begin
    \/ Router_removeAll_end
    \/ Router_close
    \/ Run_return

SpecInv == Init /\ [][NextInv]_vars

\* the callback registry under the dispatch loop, up to the end of the
\* router's teardown: subscribers that share one caller scope, no
\* invocations, and frames that carry only push sub-messages
NextCb ==
    \/ CancelScope(1)
    \/ \E m \in Methods : Callback(1, m)
    \/ \E s \in 1..MaxStreams : Close(s)
    \/ \E s \in 1..MaxStreams : Read_begin(s)
    \/ \E s \in 1..MaxStreams : Read_select(s)
    \/ CancelTop
    \/ Reader_read(PushFrames(nFrames + 1))
    \/ Router_message
    \/ Router_cb_begin
    \/ Router_cb_step
    \/ Router_cancelled
    \/ Router_removeAll_begin
    \/ Router_removeAll_step
    \/ Router_removeAll_end

SpecCb == Init /\ [][NextCb]_vars

\* both registries under the whole of Client.Run: invocations and one
\* subscription on one caller scope, frames that carry a response, a push
\* for the subscribed method, or both
NextRun ==
    \/ CancelScope(1)
    \/ Invoke_create(1)
    \/ \E id \in 1..MaxInv : Invoke_sent(id)
    \/ \E id \in 1..MaxInv : Invoke_failed(id)
    \/ \E id \in 1..MaxInv : Unmarshal(id)
    \/ nStreams = 0 /\ Callback(1, "a")
    \/ \E s \in 1..MaxStreams : Close(s)
    \/ \E s \in 1..MaxStreams : Read_begin(s)
    \/ \E s \in 1..MaxStreams : Read_select(s)
    \/ CancelTop
    \/ Reader_read(RunFrames(nFrames + 1))
    \/ Reader_fail
    \/ Router_message
    \/ Router_cb_begin
    \/ Router_cb_step
    \/ Router_cancelled
    \/ Router_removeAll_begin
    \/ Router_removeAll_step
    \/ Router_removeAll_end
    \/ Router_close
    \/ Run_return

SpecRun == Init /\ [][NextRun]_vars

\* the path of a frame from the transport to the callers while the
\* context of Run is live: one invocation, subscribers on one scope, frames
\* that carry a result, push sub-messages, or both
NextOrd ==
    \/ invId = 1 /\ Invoke_create(1)
    \/ \E id \in 1..MaxInv : Invoke_sent(id)
    \/ \E id \in 1..MaxInv : Unmarshal(id)
    \/ \E m \in Methods : Callback(1, m)
    \/ \E s \in 1..MaxStreams : Close(s)
    \/ \E s \in 1..MaxStreams : Read_begin(s)
    \/ \E s \in 1..MaxStreams : Read_select(s)
    \/ Reader_read(OrdFrames(nFrames + 1))
    \/ Router_message
    \/ Router_cb_begin
    \/ Router_cb_step

SpecOrd == Init /\ [][NextOrd]_vars

\* callers on separate scopes while the context of Run is live: the
\* invocation with id k is made on scope k, method "a" is subscribed on
\* scope 1 and method "b" on scope 2
NextSib ==
    \/ \E sc \in Scopes : CancelScope(sc)
    \/ \E sc \in Scopes : sc = invId /\ Invoke_create(sc)
    \/ Callback(1, "a")
    \/ Callback(2, "b")
    \/ \E s \in 1..MaxStreams : Close(s)
    \/ \E s \in 1..MaxStreams : Read_begin(s)
    \/ \E s \in 1..MaxStreams : Read_select(s)
    \/ Reader_read(SibFrames(nFrames + 1))
    \/ Router_message
    \/ Router_cb_begin
    \/ Router_cb_step

SpecSib == Init /\ [][NextSib]_vars

\* the handshake of signalr.go
NextHS ==
    \/ Init_begin
    \/ \E resp \in NegotiateResponses : Negotiate_request(resp)
    \/ Negotiate_exhausted
    \/ \E ok \in BOOLEAN : Connect(ok)
    \/ \E get_ok \in BOOLEAN, body \in StartBodies : Start_request(get_ok, body)
    \/ \E f \in InitFrames : Start_frame(f)
    \/ Init_go

SpecHS == Init /\ [][NextHS]_vars

\* the scheduling of Client.Run: a task that can take a step takes one,
\* g.Wait returns once both tasks have, and conn.ReadMessage(ctx, &msg)
\* fails once ctx is done
FairRun ==
    /\ WF_vars(Router_message)
    /\ WF_vars(Router_cb_begin)
    /\ WF_vars(Router_cb_step)
    /\ WF_vars(Router_cancelled)
    /\ WF_vars(Router_removeAll_begin)
    /\ WF_vars(Router_removeAll_step)
    /\ WF_vars(Router_removeAll_end)
    /\ WF_vars(Router_close)
    /\ WF_vars(GroupDone /\ Reader_fail)
    /\ WF_vars(Run_return)

\* Client.Run by itself: frames without push sub-messages, no invocation
\* and no subscription
NextTerm ==
    \/ CancelTop
    \/ Reader_read(ResponseFrames)
    \/ Reader_fail
    \/ Router_message
    \/ Router_cb_begin
    \/ Router_cancelled
    \/ Router_removeAll_begin
    \/ Router_removeAll_end
    \/ Router_close
    \/ Run_return

SpecTerm == Init /\ [][NextTerm]_vars /\ FairRun

\* the shutdown of Client.Run with one subscription, whose subscriber
\* reads when it pleases
NextShut ==
    \/ CancelScope(1)
    \/ nStreams = 0 /\ Callback(1, "a")
    \/ \E s \in 1..MaxStreams : Close(s)
    \/ \E s \in 1..MaxStreams : Read_begin(s)
    \/ \E s \in 1..MaxStreams : Read_select(s)
    \/ CancelTop
    \/ Reader_read(ShutFrames(nFrames + 1))
    \/ Reader_fail
    \/ Router_message
    \/ Router_cb_begin
    \/ Router_cb_step
    \/ Router_cancelled
    \/ Router_removeAll_begin
    \/ Router_removeAll_step
    \/ Router_removeAll_end
    \/ Router_close
    \/ Run_return

\* a subscriber inside CallbackStream.Read takes a case of its select
\* that is ready; whether it calls Read at all is up to the subscriber
FairRead == \A s \in 1..MaxStreams : WF_vars(Read_select(s))

SpecShut == Init /\ [][NextShut]_vars /\ FairRun /\ FairRead

(* ------------------------------ claims -------------------------------- *)

\* C1: the ids invocations.create returns start at 1 and are strictly
\* increasing in the order of the creates, so none is returned twice,
\* whatever removes, frames and removeAll come in between.
C1_IdsIncreasing ==
    /\ created # <<>> => created[1] = 1
    /\ \A k \in 1..(Len(created) - 1) : created[k] < created[k + 1]

\* an id is handed out after the registry was cleared by removeAll while
\* id 1 was pending on a live scope
C1_Witness ==
    /\ Len(created) = 2
    /\ rtPc # "select"
    /\ invPc[1] = "returned"
    /\ ~InvCtxDone(1)
    /\ invCh[1].closed
    /\ 2 \in invData

\* C2: invocations.process on a frame whose id is pending closes that
\* Invocation's channel for the first and only time, after at most one
\* send, deletes the entry and touches no other Invocation; on a frame
\* whose id is not pending it changes neither the map, nor the counter, nor
\* any channel.
C2_ProcessEffect ==
    [][Router_message =>
         LET id == rdMsg.I IN
         IF id \in invData
         THEN /\ invData' = invData \ {id}
              /\ ~invCh[id].closed /\ invCh'[id].closed
              /\ closes'[id] = 1
              /\ sends'[id] <= 1
              /\ Len(invCh'[id].buf) = sends'[id]
              /\ ~panicked'
              /\ invId' = invId
              /\ \A j \in (1..MaxInv) \ {id} :
                   /\ invCh'[j] = invCh[j]
                   /\ sends'[j] = sends[j]
                   /\ closes'[j] = closes[j]
         ELSE UNCHANGED <<invData, invId, invCh, invCtx, sends, closes, panicked>>
    ]_vars

\* a second frame for id 1, already resolved with a value, is at the
\* handoff while id 2 is pending
C2_Witness ==
    /\ rdPc = "handoff"
    /\ rtPc = "select"
    /\ rdMsg.I = 1
    /\ sends[1] = 1
    /\ 1 \notin invData
    /\ 2 \in invData

\* C3: no Invocation's channel is sent on more than once or closed more
\* than once, and nothing is closed or sent on after its close.
C3_AtMostOnce ==
    /\ ~panicked
    /\ \A id \in 1..MaxInv : sends[id] <= 1 /\ closes[id] <= 1

\* the remove of a failed Invoke found its entry already resolved by a
\* frame, and the teardown's removeAll ran as well
C3_Witness ==
    /\ invPc[1] = "failed"
    /\ sends[1] = 1
    /\ closes[1] = 1
    /\ closes[2] = 1
    /\ rtPc = "done"

\* the streams allocated so far
Streams == 1..nStreams

\* callbacks.create(method) finds a registered stream whose context is
\* not done
Duplicate(method) == cbData[method] # 0 /\ ~StCtxDone(cbData[method])

\* C4: callbacks.create for a method whose registered stream has neither
\* been closed nor had its caller scope cancelled returns the duplicate
\* error and changes neither the registry nor any stream; in every other
\* case, in particular once the registered stream was closed or its caller
\* scope cancelled, it returns no error and registers a new stream with an
\* open, empty buffer.
C4_CreateDuplicate ==
    [][\A sc \in Scopes, method \in Methods :
         Callback(sc, method) =>
           IF /\ cbData[method] # 0
              /\ ~stCancel[cbData[method]]
              /\ ~scopeDone[stParent[cbData[method]]]
           THEN /\ lastCreate'.err = "DuplicateCallbackError"
                /\ UNCHANGED <<nStreams, cbData, stMethod, stParent, stCancel, stCh>>
           ELSE /\ lastCreate'.err = Nil
                /\ nStreams' = nStreams + 1
                /\ cbData' = [cbData EXCEPT ![method] = nStreams']
                /\ stCh'[nStreams'] = MakeChan
                /\ stMethod'[nStreams'] = method
                /\ ~stCancel'[nStreams']
                /\ \A s \in Streams : stCh'[s] = stCh[s] /\ stCancel'[s] = stCancel[s]
    ]_vars

\* stream 1 was closed by its subscriber, a second stream was registered
\* for the same method, and a further create for it got the duplicate error
C4_Witness ==
    /\ nStreams = 2
    /\ stMethod[1] = stMethod[2]
    /\ stCancel[1]
    /\ ~scopeDone[1]
    /\ cbData[stMethod[2]] = 2
    /\ ~StCtxDone(2)
    /\ lastCreate.err = "DuplicateCallbackError"
    /\ lastCreate.method = stMethod[2]

\* stream s is registered and able to receive deliveries
Live(s) ==
    /\ s \in Streams
    /\ cbData[stMethod[s]] = s
    /\ ~StCtxDone(s)
    /\ ~stCh[s].closed

\* stream s was closed by its subscriber, had its caller scope cancelled,
\* or had its channel closed by the deadline of process or by removeAll
TornDown(s) == StCtxDone(s) \/ stCh[s].closed

\* the router holds callbacks.mtx in a select none of whose cases is ready:
\* in process until the write deadline, in removeAll without one
RouterBlocked ==
    \/ /\ rtPc = "callbacks.loop"
       /\ LET s == cbData[rtMsg.M[rtIdx].Method]
          IN  s # 0 /\ ~CaseDone(s) /\ ~CaseSend(s)
    \/ /\ rtPc = "removeAll.loop"
       /\ rtTodo # {}
       /\ \A s \in rtTodo : ~StCtxDone(s) /\ ~ChCanSend(stCh[s], BufCap)

\* C5: for each method at most one stream is live, and whenever a method
\* has a torn-down stream and no live one, callbacks.create for it neither
\* waits for a router that is blocked with the lock held nor, once it has
\* the lock, returns the duplicate error.
C5_OneLiveResubscribable ==
    /\ \A m \in Methods :
         Cardinality({s \in Streams : stMethod[s] = m /\ Live(s)}) <= 1
    /\ \A s \in Streams :
         (TornDown(s) /\ ~\E t \in Streams : stMethod[t] = stMethod[s] /\ Live(t)) =>
           /\ ~(cbLocked /\ RouterBlocked)
           /\ ~cbLocked => ~Duplicate(stMethod[s])

\* C7: an iteration of callbacks.process for a method without an entry
\* changes neither the map nor any stream's buffer, context or
\* registration and raises nothing, and the loop goes on to the next
\* sub-message of the frame.
C7_UnsubscribedDropped ==
    [][(Router_cb_step /\ cbData[rtMsg.M[rtIdx].Method] = 0) =>
         /\ UNCHANGED <<cbData, stCh, stCancel, stParent, stMethod, nStreams, panicked>>
         /\ rtIdx < Len(rtMsg.M) =>
              /\ rtPc' = "callbacks.loop"
              /\ rtIdx' = rtIdx + 1
              /\ rtMsg' = rtMsg
    ]_vars

\* the first sub-message of a frame was dropped for want of a subscriber
\* and the second one was delivered to the only stream there is
C7_Witness ==
    /\ rtPc = "select"
    /\ nStreams = 1
    /\ cbData[stMethod[1]] = 1
    /\ Len(stCh[1].buf) = 1
    /\ stCh[1].buf[1].message.tag = <<1, 2>>

\* C8: when an iteration of callbacks.process finds the stream's buffer
\* full, it ends with the stream's context done, its buffer closed and its
\* entry deleted, and the loop goes on; an iteration for a stream whose
\* context is not done and whose buffer has room appends the sub-message
\* to that buffer, also right after a stalled stream was torn down.
C8_StallTeardown ==
    [][Router_cb_step =>
         LET m == rtMsg.M[rtIdx].Method
             s == cbData[m]
         IN  /\ (s # 0 /\ ~stCh[s].closed /\ Len(stCh[s].buf) = BufCap) =>
                  /\ stCancel'[s] \/ scopeDone'[stParent[s]]
                  /\ stCh'[s].closed
                  /\ stCh'[s].buf = stCh[s].buf
                  /\ cbData'[m] = 0
                  /\ rtIdx < Len(rtMsg.M) =>
                       rtPc' = "callbacks.loop" /\ rtIdx' = rtIdx + 1
             /\ (s # 0 /\ ~StCtxDone(s) /\ Len(stCh[s].buf) < BufCap) =>
                  /\ stCh'[s].buf = Append(stCh[s].buf,
                                           [message |-> rtMsg.M[rtIdx], err |-> Nil])
                  /\ ~stCh'[s].closed
                  /\ cbData'[m] = s
    ]_vars

\* the deadline has just torn down the stream of the frame's first
\* sub-message, whose subscriber never read, and the second sub-message is
\* for another method with a live stream that has room
C8_Witness ==
    /\ rtPc = "callbacks.loop"
    /\ rtIdx = 2
    /\ rtLog = <<"timeout">>
    /\ \E s1, s2 \in Streams :
         /\ stMethod[s1] = rtMsg.M[1].Method
         /\ stMethod[s2] = rtMsg.M[2].Method
         /\ s1 # s2
         /\ stGot[s1] = <<>>
         /\ stCh[s1].closed /\ stCancel[s1] /\ cbData[stMethod[s1]] = 0
         /\ cbData[stMethod[s2]] = s2
         /\ ~StCtxDone(s2)
         /\ Len(stCh[s2].buf) < BufCap

\* C6: Unmarshal on an Invocation that was pending when the router's
\* teardown ran returns a cancellation error also when its own scope is
\* not cancelled; the teardown leaves every registered stream closed with
\* nothing but a cancellation for a reader that has drained it; and both
\* maps are empty once invocations.removeAll and callbacks.removeAll have
\* run.
C6_CancelResolvesAll ==
    [][/\ \A id \in 1..MaxInv :
            (Unmarshal(id) /\ invPc[id] = "returned" /\ invCh[id].closed
                /\ sends[id] = 0) =>
              invOut'[id] \in {"ctx_err", "Canceled"}
       /\ Router_cancelled =>
            /\ invData' = {}
            /\ \A id \in invData : invCh'[id].closed
       /\ Router_removeAll_end =>
            /\ Registered' = {}
            /\ \A s \in Registered :
                 /\ stCh[s].closed
                 /\ \/ StCtxDone(s)
                    \/ stCh[s].buf = <<>>
                    \/ stCh[s].buf[Len(stCh[s].buf)].err = "Canceled"
    ]_vars

\* C9: a failure of the reader that is the group's first error cancels
\* the group's context and is the error Run returns, whatever conn.Close
\* returns to the router afterwards; Run returns only after both tasks
\* have, and the router task ends only by way of invocations.removeAll,
\* callbacks.removeAll, which empties the map, and conn.Close, in that
\* order.
C9_ReaderFailure ==
    [][/\ (Reader_fail /\ grpErr = Nil) =>
            grpErr' = "read_err" /\ rdErr' = "read_err" /\ GroupDone'
       /\ grpErr # Nil => grpErr' = grpErr
       /\ Run_return =>
            /\ runRet' = grpErr
            /\ rdPc = "done" /\ rtPc = "done" /\ connClosed
       /\ (rtPc' = "done" /\ rtPc # "done") =>
            rtPc = "conn.Close" /\ connClosed'
       /\ (rtPc' = "conn.Close" /\ rtPc # "conn.Close") =>
            rtPc = "removeAll.loop" /\ rtTodo = {} /\ Registered' = {}
       /\ (rtPc' = "removeAll.loop" /\ rtPc # "removeAll.loop") =>
            rtPc = "callbacks.removeAll"
       /\ (rtPc' = "callbacks.removeAll" /\ rtPc # "callbacks.removeAll") =>
            rtPc = "select" /\ GroupDone /\ invData' = {}
    ]_vars

\* the reader failed while the caller's context was live, the teardown
\* closed the only stream, conn.Close failed as well, and Run has returned
\* the reader's error
C9_Witness ==
    /\ ~topDone
    /\ rdErr = "read_err"
    /\ rtErr = "close_err"
    /\ runRet = "read_err"
    /\ nStreams = 1
    /\ stCh[1].closed
    /\ ~StCtxDone(1)
    /\ invPc[1] = "returned"
    /\ invCh[1].closed

\* the last response Negotiate got was a 200 with a body that parsed
NegotiateSucceeded ==
    /\ hsIn.negotiate # <<>>
    /\ hsIn.negotiate[Len(hsIn.negotiate)] = [status |-> "200", body |-> "json"]

\* C10: Connect is called only after Negotiate succeeded, Start only
\* after Connect succeeded, and the frame is read only after the start
\* response was "started"; the transport is set, and the read loop
\* started, only if moreover that frame was a text frame with S = 1, and
\* the loop is started only with the transport set; after a failed step
\* the error is kept, the transport is not set and the loop is not started.
C10_HandshakeOrder ==
    /\ hsIn.connect # Nil => NegotiateSucceeded
    /\ hsIn.start # Nil => hsIn.connect = "dialed"
    /\ hsIn.frame # NoInitFrame => hsIn.start = "started"
    /\ (hsConn \/ hsLoop \/ hsPc = "Connected") =>
         /\ NegotiateSucceeded
         /\ hsIn.connect = "dialed"
         /\ hsIn.start = "started"
         /\ ~hsIn.frame.err
         /\ hsIn.frame.type = TextMessage
         /\ hsIn.frame.json
         /\ hsIn.frame.S = 1
    /\ hsLoop => hsConn
    /\ hsPc = "Connected" <=> hsLoop
    /\ hsPc = "Failed" => ~hsConn /\ ~hsLoop /\ hsErr # Nil

\* Connected after Negotiate was answered twice with a status that makes
\* it try again
C10_Witness ==
    /\ hsPc = "Connected"
    /\ hsConn
    /\ hsLoop
    /\ Len(hsIn.negotiate) = 3
    /\ hsIn.negotiate[1].status = "500"

\* C11: a request of Negotiate is issued only while fewer than 5 were,
\* and only after answers that were all retried (so none after a 503); a
\* 503 fails at once without a sleep; any other status that is not 200
\* sleeps once and, while fewer than 5 requests were issued, leaves
\* Negotiate about to issue the next one; when the 5th is answered that way
\* too, Negotiate returns an error; a 200 with a body that parses after k
\* such answers succeeds after exactly k sleeps and k + 1 requests.
C11_NegotiateRetry ==
    [][/\ \A resp \in NegotiateResponses :
            Negotiate_request(resp) =>
              LET k == Len(hsIn.negotiate) IN
              /\ k < 5
              /\ \A i \in 1..k : hsIn.negotiate[i].status = "500"
              /\ negSleeps = k
              /\ resp.status = "503" =>
                   hsPc' = "Failed" /\ hsErr' # Nil /\ negSleeps' = negSleeps
              /\ resp.status = "500" =>
                   /\ negSleeps' = negSleeps + 1
                   /\ hsErr' # Nil
                   /\ hsPc' = "Negotiating"
                   /\ negI' = k + 1
              /\ resp = [status |-> "200", body |-> "json"] =>
                   /\ hsPc' = "Connecting"
                   /\ hsErr' = Nil
                   /\ negSleeps' = k
                   /\ Len(hsIn'.negotiate) = k + 1
       /\ Negotiate_exhausted =>
            /\ Len(hsIn.negotiate) = 5
            /\ \A i \in 1..5 : hsIn.negotiate[i].status \notin {"200", "503"}
            /\ hsPc' = "Failed"
            /\ hsErr' # Nil
            /\ hsIn' = hsIn
       /\ (hsPc = "Negotiating" /\ negI = 5) => hsIn' = hsIn
    ]_vars

\* Negotiate has succeeded with its fifth request, after four answers
\* that made it sleep and try again
C11_Witness ==
    /\ hsPc = "Connecting"
    /\ Len(hsIn.negotiate) = 5
    /\ negSleeps = 4
    /\ hsIn.negotiate[5].status = "200"
    /\ hsErr = Nil

\* Invocation.Unmarshal on the handle of id does not block: r.err is set,
\* or a case of its select is ready
UnmarshalReady(id) ==
    \/ invPc[id] = "failed"
    \/ invPc[id] = "returned" /\ (InvCtxDone(id) \/ ChCanRecv(invCh[id]))

\* C12: once Invoke has returned the handle of an id and the caller's
\* scope is cancelled, or a frame for the id was processed, or the registry
\* was torn down, Unmarshal on it does not block; and an Unmarshal that
\* runs when the caller's scope is cancelled returns the context's error.
C12_UnmarshalReturns ==
    [][\A id \in 1..MaxInv :
         /\ (/\ invPc'[id] \in {"returned", "failed"}
             /\ InvCtxDone(id)' \/ invCh'[id].closed) =>
              UnmarshalReady(id)'
         /\ (Unmarshal(id) /\ invPc[id] = "returned" /\ InvCtxDone(id)) =>
              invOut'[id] = "ctx_err"
    ]_vars

\* C13: in no reachable state does the router hold callbacks.mtx while
\* it waits in the select of callbacks.process or of callbacks.removeAll
\* with no case ready.
C13_NoLockWhileBlocked == ~(cbLocked /\ RouterBlocked)

\* C14: once the context passed to Run is cancelled, Run eventually
\* returns.
C14_RunReturns == topDone ~> (runRet # "running")

\* C15: invocations.process on a frame for a pending id sends the result
\* on the Invocation's channel exactly when the caller's scope is not done
\* (otherwise the channel stays empty), and in both cases closes the
\* channel and deletes the entry.
C15_WriteIffLive ==
    [][(Router_message /\ rdMsg.I \in invData) =>
         LET id == rdMsg.I IN
         /\ invCh'[id].buf = (IF InvCtxDone(id) THEN <<>> ELSE <<ResultOf(rdMsg)>>)
         /\ sends'[id] = (IF InvCtxDone(id) THEN 0 ELSE 1)
         /\ invCh'[id].closed
         /\ id \notin invData'
    ]_vars

\* C16: an iteration of callbacks.process for a registered stream whose
\* context is done closes the stream's channel and deletes its entry
\* without sending, whatever room the buffer has; an iteration that sends
\* does so for a stream whose context is not done, and leaves it registered.
C16_DoneStreamTornDown ==
    [][(Router_cb_step /\ cbData[rtMsg.M[rtIdx].Method] # 0) =>
         LET m == rtMsg.M[rtIdx].Method
             s == cbData[m]
         IN  /\ StCtxDone(s) =>
                  /\ stCh'[s].closed
                  /\ stCh'[s].buf = stCh[s].buf
                  /\ cbData'[m] = 0
             /\ stCh'[s].buf # stCh[s].buf =>
                  /\ ~StCtxDone(s)
                  /\ cbData'[m] = s
                  /\ ~stCh'[s].closed
    ]_vars

\* tag a comes before tag b in the transport's order
TagLess(a, b) == a[1] < b[1] \/ (a[1] = b[1] /\ a[2] < b[2])

\* the tags of the messages stream s has yielded, then of those that wait
\* in its buffer
Delivered(s) ==
    LET msgs == SelectSeq(stCh[s].buf, LAMBDA r : r.err = Nil)
    IN  stGot[s] \o [k \in 1..Len(msgs) |-> msgs[k].message.tag]

C18_SiblingIsolation ==
    [][/\ \A sc \in Scopes :
            CancelScope(sc) =>
              /\ UNCHANGED <<invData, invCh, sends, closes, cbData, stCh, stCancel>>
              /\ \A id \in invData :
                   invCtx[id] # sc => (InvCtxDone(id)' <=> InvCtxDone(id))
              /\ \A s \in Streams :
                   stParent[s] # sc => (StCtxDone(s)' <=> StCtxDone(s))
       /\ \A s \in 1..MaxStreams :
            Close(s) =>
              /\ UNCHANGED <<invData, invCh, sends, closes, cbData, stCh, scopeDone>>
              /\ \A t \in Streams \ {s} : StCtxDone(t)' <=> StCtxDone(t)
       /\ Router_message =>
            \A id \in invData :
              /\ id # rdMsg.I => id \in invData' /\ invCh'[id] = invCh[id]
              /\ (id = rdMsg.I /\ ~InvCtxDone(id)) =>
                   invCh'[id] = [buf |-> <<ResultOf(rdMsg)>>, closed |-> TRUE]
       /\ Router_cb_step =>
            LET target == cbData[rtMsg.M[rtIdx].Method] IN
            \A t \in Registered :
              /\ t # target =>
                   /\ stCh'[t] = stCh[t]
                   /\ cbData'[stMethod[t]] = t
                   /\ StCtxDone(t)' <=> StCtxDone(t)
              /\ (t = target /\ ~StCtxDone(t) /\ Len(stCh[t].buf) < BufCap) =>
                   /\ stCh'[t].buf = Append(stCh[t].buf,
                                            [message |-> rtMsg.M[rtIdx], err |-> Nil])
                   /\ ~stCh'[t].closed
                   /\ cbData'[stMethod[t]] = t
                   /\ ~StCtxDone(t)'
    ]_vars

\* scope 1 was cancelled and its stream torn down by frame 1; frame 2 then
\* resolved the Invocation of scope 2 and was delivered to its stream
C18_Witness ==
    /\ scopeDone[1]
    /\ ~scopeDone[2]
    /\ invCtx[2] = 2
    /\ sends[2] = 1
    /\ \E s, t \in Streams :
         /\ stParent[s] = 1
         /\ ~stCancel[s]
         /\ stCh[s] = [buf |-> <<>>, closed |-> TRUE]
         /\ stGot[s] = <<>>
         /\ stParent[t] = 2
         /\ cbData[stMethod[t]] = t
         /\ Len(stCh[t].buf) = 1
         /\ stCh[t].buf[1].message.tag = <<2, 1>>
         /\ ~stCh[t].closed

\* C19: nothing is sent on a closed channel and no channel is closed
\* twice, because every stream in callbacks.data has an open channel
\* whenever callbacks.mtx is free and for as long as the loop that holds it
\* has not visited the stream: the only entries with a closed channel are
\* those callbacks.removeAll has just closed and is about to drop with the
\* map, before it releases the lock.
C19_RegisteredOpen ==
    /\ ~panicked
    /\ \A s \in Registered :
         stCh[s].closed => (cbLocked /\ rtPc = "removeAll.loop" /\ s \notin rtTodo)

\* a stream was closed by its subscriber and its entry taken over by a
\* new stream for the same method, which callbacks.removeAll then closed
\* after a delivery; the first stream's channel was never closed
C19_Witness ==
    /\ nStreams = 2
    /\ stMethod[1] = stMethod[2]
    /\ stCancel[1]
    /\ ~stCh[1].closed
    /\ stCh[2].closed
    /\ Len(stCh[2].buf) = 1
    /\ rtPc = "conn.Close"
    /\ Registered = {}

\* C20: callbacks.removeAll, once it has the lock, eventually replaces
\* the map and returns, so that the router goes on to close the transport.
C20_RemoveAllTerminates ==
    (rtPc = "removeAll.loop") ~> (rtPc \in {"conn.Close", "done"})

====
